---- MODULE Spec2Model ----
(***************************************************************************)
(* Port-profile reconciliation (main.py): the configuration parser and     *)
(* classifier (validate_interfaces), the reconciliation analyzer           *)
(* (analyze_config_failures), the comment filter and diff (create_diff),   *)
(* and the workflow of main().                                             *)
(*                                                                         *)
(* Python strings are sequences of one-character strings, so that strip,   *)
(* split, startswith, lower, replace and `in` are computed as Python       *)
(* computes them.                                                          *)
(***************************************************************************)
EXTENDS Integers, Sequences, FiniteSets, TLC

(***************************************************************************)
(* Python string operations                                                *)
(***************************************************************************)
MinOf(S) == CHOOSE x \in S : \A y \in S : x <= y

MaxOf(S) == CHOOSE x \in S : \A y \in S : x >= y

\* Python's None; no string equals it.
None == <<"None">>

\* bool(x) of a value that is None or a string
Truthy(x) == x # None /\ x # <<>>

NL == "\n"

IsSpace(c) == c \in {" ", "\t", "\n", "\r"}

UpperLetters == <<"A","B","C","D","E","F","G","H","I","J","K","L","M",
                  "N","O","P","Q","R","S","T","U","V","W","X","Y","Z">>

LowerLetters == <<"a","b","c","d","e","f","g","h","i","j","k","l","m",
                  "n","o","p","q","r","s","t","u","v","w","x","y","z">>

LowerChar(c) ==
  IF \E i \in 1..26 : UpperLetters[i] = c
  THEN LowerLetters[CHOOSE i \in 1..26 : UpperLetters[i] = c]
  ELSE c

\* s.lower()
Lower(s) == [i \in 1..Len(s) |-> LowerChar(s[i])]

\* s.startswith(p)
StartsWith(s, p) == Len(s) >= Len(p) /\ SubSeq(s, 1, Len(p)) = p

\* p in s
Contains(s, p) ==
  \E i \in 1..(Len(s) - Len(p) + 1) : SubSeq(s, i, i + Len(p) - 1) = p

\* s.strip()
Strip(s) ==
  LET idx == {i \in 1..Len(s) : ~IsSpace(s[i])}
  IN  IF idx = {} THEN <<>> ELSE SubSeq(s, MinOf(idx), MaxOf(idx))

\* s.split(c) for a one-character separator c
RECURSIVE SplitOn(_, _)
SplitOn(s, c) ==
  LET pos == {i \in 1..Len(s) : s[i] = c}
  IN  IF pos = {} THEN <<s>>
      ELSE LET p == MinOf(pos)
           IN  <<SubSeq(s, 1, p - 1)>> \o SplitOn(SubSeq(s, p + 1, Len(s)), c)

\* s.split(): the words between runs of whitespace
RECURSIVE SplitWords(_)
SplitWords(s) ==
  LET idx == {i \in 1..Len(s) : ~IsSpace(s[i])}
  IN  IF idx = {} THEN <<>>
      ELSE LET b  == MinOf(idx)
               sp == {i \in b..Len(s) : IsSpace(s[i])}
               e  == IF sp = {} THEN Len(s) + 1 ELSE MinOf(sp)
           IN  <<SubSeq(s, b, e - 1)>> \o SplitWords(SubSeq(s, e, Len(s)))

\* s.replace(old, new), old not empty
RECURSIVE Replace(_, _, _)
Replace(s, old, new) ==
  IF Len(s) < Len(old) THEN s
  ELSE IF StartsWith(s, old)
       THEN new \o Replace(SubSeq(s, Len(old) + 1, Len(s)), old, new)
       ELSE <<s[1]>> \o Replace(Tail(s), old, new)

\* s.splitlines(keepends=True), for texts whose only line boundary is "\n"
RECURSIVE SplitLinesKeepEnds(_)
SplitLinesKeepEnds(s) ==
  LET pos == {i \in 1..Len(s) : s[i] = NL}
  IN  IF s = <<>> THEN <<>>
      ELSE IF pos = {} THEN <<s>>
      ELSE LET p == MinOf(pos)
           IN  <<SubSeq(s, 1, p)>> \o SplitLinesKeepEnds(SubSeq(s, p + 1, Len(s)))

\* ''.join(parts)
RECURSIVE Concat(_)
Concat(parts) == IF parts = <<>> THEN <<>> ELSE parts[1] \o Concat(Tail(parts))

\* sep.join(parts)
RECURSIVE Join(_, _)
Join(parts, sep) ==
  IF parts = <<>> THEN <<>>
  ELSE IF Len(parts) = 1 THEN parts[1]
       ELSE parts[1] \o sep \o Join(Tail(parts), sep)

Digits == <<"0","1","2","3","4","5","6","7","8","9">>

\* str(n) of an integer n >= 0, as in an f-string
RECURSIVE Decimal(_)
Decimal(n) ==
  IF n < 10 THEN <<Digits[n + 1]>>
  ELSE Decimal(n \div 10) \o <<Digits[(n % 10) + 1]>>

\* d.get(key, default)
Get(d, key, default) == IF key \in DOMAIN d THEN d[key] ELSE default

\* the elements of a list, as set(list)
SetOf(list) == {list[i] : i \in 1..Len(list)}

(***************************************************************************)
(* String literals of main.py                                              *)
(***************************************************************************)
s_interface_sp == <<"i","n","t","e","r","f","a","c","e"," ">>

s_ethernet1_lc == <<"e","t","h","e","r","n","e","t","1","/">>

s_eth1_lc == <<"e","t","h","1","/">>

s_Eth1 == <<"E","t","h","1","/">>

s_Ethernet1 == <<"E","t","h","e","r","n","e","t","1","/">>

s_ip_address == <<"i","p"," ","a","d","d","r","e","s","s">>

s_ipv6_address == <<"i","p","v","6"," ","a","d","d","r","e","s","s">>

s_no_switchport == <<"n","o"," ","s","w","i","t","c","h","p","o","r","t">>

s_routed == <<"r","o","u","t","e","d">>

s_inherit == <<"i","n","h","e","r","i","t"," ",
               "p","o","r","t","-","p","r","o","f","i","l","e">>

s_BAREMETAL == <<"B","A","R","E","M","E","T","A","L">>

s_inherit_BAREMETAL == s_inherit \o <<" ">> \o s_BAREMETAL

\* range(1, 47) ends at Ethernet1/46
LastPort == 46

\* f"Ethernet1/{i}"
EthernetName(i) == s_Ethernet1 \o Decimal(i)

(***************************************************************************)
(* validate_interfaces: the parser (lines 87-116)                          *)
(***************************************************************************)
\* lines 88-91: the cursor and the three fact sets before the loop
ParseStart ==
  [current_interface       |-> None,
   interfaces_with_profile |-> {},
   interfaces_with_baremetal |-> {},
   l3_interfaces           |-> {}]

\* line 97: line.split()[1] if len(line.split()) > 1 else ''
InterfacePart(line) ==
  IF Len(SplitWords(line)) > 1 THEN SplitWords(line)[2] ELSE <<>>

\* line 98: the header names a tracked interface
IsTrackedName(interface_part) ==
  \/ Contains(Lower(interface_part), s_ethernet1_lc)
  \/ Contains(Lower(interface_part), s_eth1_lc)

\* lines 100-102: the cursor value for a tracked header
NormalizeName(interface_part) ==
  LET replaced == Replace(interface_part, s_Eth1, s_Ethernet1)
  IN  IF StartsWith(replaced, s_ethernet1_lc)
      THEN Replace(replaced, s_ethernet1_lc, s_Ethernet1)
      ELSE replaced

\* lines 104-107: the L3 test of a stripped line
IsL3Line(line) ==
  \/ StartsWith(line, s_ip_address)
  \/ StartsWith(line, s_ipv6_address)
  \/ StartsWith(line, s_no_switchport)
  \/ Contains(Lower(line), s_routed)

\* lines 94-116: one iteration of the loop over config_lines
ParseLine(st, raw_line) ==
  LET line == Strip(raw_line)
  IN  IF StartsWith(line, s_interface_sp)
      THEN IF IsTrackedName(InterfacePart(line))
           THEN [st EXCEPT !.current_interface = NormalizeName(InterfacePart(line))]
           ELSE st
      ELSE IF Truthy(st.current_interface) /\ IsL3Line(line)
      THEN [st EXCEPT !.l3_interfaces = @ \cup {st.current_interface}]
      ELSE IF StartsWith(line, s_inherit) /\ Truthy(st.current_interface)
      THEN [st EXCEPT
              !.interfaces_with_profile = @ \cup {st.current_interface},
              !.interfaces_with_baremetal =
                 IF Contains(line, s_inherit_BAREMETAL)
                 THEN @ \cup {st.current_interface} ELSE @]
      ELSE st

\* lines 93-116: the loop, from line i on
RECURSIVE ParseFrom(_, _, _)
ParseFrom(config_lines, i, st) ==
  IF i > Len(config_lines) THEN st
  ELSE ParseFrom(config_lines, i + 1, ParseLine(st, config_lines[i]))

\* lines 87-116: the facts of a configuration text
ParseConfig(text) == ParseFrom(SplitOn(text, NL), 1, ParseStart)

(***************************************************************************)
(* validate_interfaces: the classifier (lines 77-84, 119-142)              *)
(***************************************************************************)
\* lines 119-120: the identifiers the loop over range(1, 47) visits, in order
TargetInterfaces == [i \in 1..LastPort |-> EthernetName(i)]

\* AppendedTo with the first elif written as if: an L3 interface also falls
\* through the profile tests
AppendedTo_IfForElif(interface, facts) ==
  (IF interface \in facts.l3_interfaces
   THEN {"l3_interfaces_skipped"} ELSE {})
  \cup
  (IF interface \in facts.interfaces_with_baremetal
   THEN {"port_profile_already_applied"}
   ELSE IF interface \in facts.interfaces_with_profile
   THEN {"port_profile_already_applied"}
   ELSE {"port_profile_missing", "port_profile_failed"})

\* lines 121-136: the body of the loop, as the lists it appends the
\* interface to
AppendedTo(interface, facts) ==
  IF interface \in facts.l3_interfaces
  THEN {"l3_interfaces_skipped"}
  ELSE IF interface \in facts.interfaces_with_baremetal
  THEN {"port_profile_already_applied"}
  ELSE IF interface \in facts.interfaces_with_profile
  THEN {"port_profile_already_applied"}
  ELSE {"port_profile_missing", "port_profile_failed"}

\* lines 124, 127, 131: the branches that add 1 to port_profile_applied
CountsAsApplied(interface, facts) ==
  \/ interface \in facts.l3_interfaces
  \/ interface \in facts.interfaces_with_baremetal
  \/ interface \in facts.interfaces_with_profile

\* a result list after the loop: the interfaces appended to it, in loop order
ListAfterLoop(key, facts) ==
  SelectSeq(TargetInterfaces, LAMBDA x : key \in AppendedTo(x, facts))

\* lines 77-84, 119-142: the result dict of a set of facts
Classify(facts) ==
  [port_profile_applied |->
     Len(SelectSeq(TargetInterfaces, LAMBDA x : CountsAsApplied(x, facts))),
   port_profile_missing         |-> ListAfterLoop("port_profile_missing", facts),
   port_profile_already_applied |-> ListAfterLoop("port_profile_already_applied", facts),
   port_profile_failed          |-> ListAfterLoop("port_profile_failed", facts),
   l3_interfaces_skipped        |-> ListAfterLoop("l3_interfaces_skipped", facts),
   validation_passed |-> (ListAfterLoop("port_profile_missing", facts) = <<>>)]

\* str(e) of the exception of a failed capture
CaptureError == <<"e","r","r","o","r">>

\* a capture (task.run of a show command): the text, or an exception
CaptureOk(text) == [ok |-> TRUE, result |-> text]

CaptureRaised == [ok |-> FALSE]

\* lines 71-148: validate_interfaces, given what the capture of
\* "show running-config interface" did
validate_interfaces(capture) ==
  IF capture.ok
  THEN Classify(ParseConfig(capture.result))
  ELSE [error |-> CaptureError, validation_passed |-> FALSE]

(***************************************************************************)
(* analyze_config_failures (lines 150-184)                                 *)
(***************************************************************************)
\* Python's None where a dict is expected (records and sequences do not
\* compare)
NoneDict == [none |-> TRUE]

\* `not d` of a dict or None
Falsy(d) == DOMAIN d = {} \/ d = NoneDict

\* f"{x:.1f}" of x = (c / a) * 100, in tenths: the nearest tenth, a tie (an
\* exact binary fraction here) going to the even one
RoundedTenths(c, a) ==
  LET q == (1000 * c) \div a
      r == (1000 * c) % a
  IN  IF 2 * r < a THEN q
      ELSE IF 2 * r > a THEN q + 1
      ELSE IF q % 2 = 0 THEN q ELSE q + 1

\* lines 170-173, and the .1f of line 183
SuccessPercentage(total_configured, total_attempted) ==
  LET tenths == IF total_attempted > 0
                THEN RoundedTenths(total_configured, total_attempted)
                ELSE 1000
  IN  Decimal(tenths \div 10) \o <<".">> \o Decimal(tenths % 10)

\* line 183: f"{total_configured}/{total_attempted} ({success_percentage:.1f}%)"
SuccessRate(total_configured, total_attempted) ==
  Decimal(total_configured) \o <<"/">> \o Decimal(total_attempted)
    \o <<" ", "(">> \o SuccessPercentage(total_configured, total_attempted)
    \o <<"%", ")">>

\* line 165 with the operands exchanged
NewFailures_Swapped(before_missing, after_missing) ==
  before_missing \ after_missing

\* line 165
NewFailures(before_missing, after_missing) == after_missing \ before_missing

\* line 162 computed against the full target range instead of before_missing
SuccessfullyConfigured_AllTargets(before_missing, after_missing) ==
  {EthernetName(n) : n \in 1..LastPort} \ after_missing

\* line 162
SuccessfullyConfigured(before_missing, after_missing) ==
  before_missing \ after_missing

\* lines 150-184; the three lists are list(set(...)), whose order Python
\* leaves open, so they are kept as sets
analyze_config_failures(before_validation, after_validation, hostname) ==
  IF Falsy(before_validation) \/ Falsy(after_validation) THEN NoneDict
  ELSE
    LET before_missing == SetOf(Get(before_validation, "port_profile_missing", <<>>))
        after_missing  == SetOf(Get(after_validation, "port_profile_missing", <<>>))
        still_missing  == before_missing \cap after_missing
        successfully_configured ==
          SuccessfullyConfigured(before_missing, after_missing)
        new_failures   == NewFailures(before_missing, after_missing)
        total_configured == Cardinality(successfully_configured)
        total_attempted  == Cardinality(before_missing)
    IN  [hostname                   |-> hostname,
         total_target_interfaces    |-> LastPort,
         before_missing_count       |-> Cardinality(before_missing),
         after_missing_count        |-> Cardinality(after_missing),
         successfully_configured    |-> successfully_configured,
         still_missing              |-> still_missing,
         new_failures               |-> new_failures,
         configuration_success_rate |->
           SuccessRate(total_configured, total_attempted)]

(***************************************************************************)
(* filter_config_lines, create_diff, create_table_diff (lines 201-255)     *)
(***************************************************************************)
s_bang == <<"!">>

\* line 211: line.strip().startswith('!')
IsCommentLine(line) == StartsWith(Strip(line), s_bang)

\* lines 201-214
filter_config_lines(config) ==
  IF ~Truthy(config) THEN <<>>
  ELSE Join(SelectSeq(SplitOn(config, NL), LAMBDA line : ~IsCommentLine(line)),
            <<NL>>)

\* ''.join(difflib.unified_diff(a, b, fromfile, tofile)): empty when the two
\* lists of lines are equal, otherwise the two file labels and the hunks, which
\* a and b determine
UnifiedDiffText(a, b, fromfile, tofile) ==
  IF a = b THEN <<>>
  ELSE <<"---", fromfile, "+++", tofile, "@@", a, b>>

\* lines 216-237
create_diff(before, after, hostname) ==
  LET before_filtered == filter_config_lines(before)
      after_filtered  == filter_config_lines(after)
  IN  IF before_filtered = after_filtered THEN None
      ELSE UnifiedDiffText(SplitLinesKeepEnds(before_filtered),
                           SplitLinesKeepEnds(after_filtered),
                           <<hostname, "_before.cfg">>,
                           <<hostname, "_after.cfg">>)

\* lines 239-255
create_table_diff(before_table, after_table, hostname, table_type) ==
  IF ~Truthy(before_table) \/ ~Truthy(after_table) THEN None
  ELSE UnifiedDiffText(SplitLinesKeepEnds(before_table),
                       SplitLinesKeepEnds(after_table),
                       <<hostname, "_", table_type, "_before.txt">>,
                       <<hostname, "_", table_type, "_after.txt">>)

(***************************************************************************)
(* The configuration commands (lines 257-279, 520-531)                     *)
(***************************************************************************)
(* condense_interface_ranges (lines 12-55)                                 *)
(***************************************************************************)
\* the last element of a list, list[-1]
Last(list) == list[Len(list)]

\* int(s) raises no ValueError; for the identifiers modelled, whose text
\* after the last "/" is digits only or holds a character that is no digit
ParsesAsInt(s) ==
  Len(s) > 0 /\ \A i \in 1..Len(s) : \E d \in 1..10 : Digits[d] = s[i]

\* int(s) of such a text
RECURSIVE IntOf(_)
IntOf(s) ==
  IF s = <<>> THEN 0
  ELSE 10 * IntOf(SubSeq(s, 1, Len(s) - 1))
         + (CHOOSE d \in 0..9 : Digits[d + 1] = s[Len(s)])

\* lines 20-25: the identifier contributes a number
GivesNumber(interface) ==
  /\ StartsWith(interface, s_Ethernet1)
  /\ ParsesAsInt(Last(SplitOn(interface, "/")))

\* lines 18-25
InterfaceNums(interface_list) ==
  LET parsed == SelectSeq(interface_list, GivesNumber)
  IN  [k \in 1..Len(parsed) |-> IntOf(Last(SplitOn(parsed[k], "/")))]

\* line 27: list.sort() of a list of integers
SortedNums(nums) ==
  [k \in 1..Len(nums) |->
     MinOf({v \in SetOf(nums) :
              Cardinality({i \in 1..Len(nums) : nums[i] <= v}) >= k})]

\* line 38 with a gap of one number taken as consecutive
Consecutive_AcrossGap(num, end) == num = end + 2

\* line 38
Consecutive(num, end) == num = end + 1

s_dash == "-"

\* lines 42-45 and 50-53
RangeString(start, end) ==
  IF start = end THEN s_Ethernet1 \o Decimal(start)
  ELSE s_Ethernet1 \o Decimal(start) \o <<s_dash>> \o Decimal(end)

\* lines 37-53: the loop from index i on, and the last range after it
RECURSIVE CondenseLoop(_, _, _, _, _)
CondenseLoop(interface_nums, i, start, end, done) ==
  IF i > Len(interface_nums)
  THEN Append(done, RangeString(start, end))
  ELSE IF Consecutive(interface_nums[i], end)
       THEN CondenseLoop(interface_nums, i + 1, start, interface_nums[i], done)
       ELSE CondenseLoop(interface_nums, i + 1, interface_nums[i],
                         interface_nums[i],
                         Append(done, RangeString(start, end)))

\* lines 12-55
condense_interface_ranges(interface_list) ==
  IF interface_list = <<>> THEN <<>>
  ELSE LET interface_nums == SortedNums(InterfaceNums(interface_list))
       IN  IF interface_nums = <<>> THEN interface_list
           ELSE CondenseLoop(interface_nums, 2, interface_nums[1],
                             interface_nums[1], <<>>)

(***************************************************************************)
s_exit == <<"e","x","i","t">>

\* lines 258-265
PortProfileCommands ==
  << <<"p","o","r","t","-","p","r","o","f","i","l","e"," ","t","y","p","e"," ","e","t","h","e","r","n","e","t"," ","B","A","R","E","M","E","T","A","L">>,
     <<"m","t","u"," ","9","0","0","0">>,
     <<"n","o"," ","s","n","m","p"," ","t","r","a","p"," ","l","i","n","k","-","s","t","a","t","u","s">>,
     <<"s","p","a","n","n","i","n","g","-","t","r","e","e"," ","p","o","r","t"," ","t","y","p","e"," ","e","d","g","e"," ","t","r","u","n","k">>,
     <<"s","t","a","t","e"," ","e","n","a","b","l","e","d">>,
     s_exit >>

\* lines 276-278: the three commands of one interface
InterfaceTriple(interface) ==
  <<s_interface_sp \o interface, s_inherit_BAREMETAL, s_exit>>

\* lines 268-279: the commands configure_interfaces sends for a list of
\* interfaces; for no list (None) or an empty one, those of all 46
configure_interfaces(missing_interfaces) ==
  LET list == IF ~Truthy(missing_interfaces)
              THEN TargetInterfaces ELSE missing_interfaces
  IN  [k \in 1..(3 * Len(list)) |->
         InterfaceTriple(list[((k - 1) \div 3) + 1])[((k - 1) % 3) + 1]]

\* lines 520-531: what configure_interfaces_for_host does for a host: the
\* commands it sends, if it sends any
configure_interfaces_for_host(hostname, pre_validation_data) ==
  IF hostname \in DOMAIN pre_validation_data
  THEN LET missing_interfaces ==
             Get(pre_validation_data[hostname], "port_profile_missing", <<>>)
       IN  IF Truthy(missing_interfaces)
           THEN [sends |-> TRUE,
                 commands |-> configure_interfaces(missing_interfaces)]
           ELSE [sends |-> FALSE, commands |-> <<>>]
  ELSE [sends |-> TRUE, commands |-> configure_interfaces(None)]

(***************************************************************************)
(* Configuration lines the capture of "show running-config interface" is   *)
(* drawn from                                                              *)
(***************************************************************************)
\* "interface <name>"
Header(name) == s_interface_sp \o name

\* a body line, indented as the device prints it
Body(statement) == <<" ", " ">> \o statement

n_Vlan10 == <<"V","l","a","n","1","0">>

n_eth1_lc5 == s_eth1_lc \o <<"5">>

n_ETH1_uc5 == <<"E","T","H","1","/","5">>

n_ETHERNET1_uc5 == <<"E","T","H","E","R","N","E","T","1","/","5">>

s_ip_address_value == s_ip_address \o <<" ","1","0",".","0",".","0",".","1","/","3","0">>

s_inherit_BLOCKER == s_inherit \o <<" ","B","L","O","C","K","E","R">>

s_inherit_ROUTED_EDGE == s_inherit \o <<" ","R","O","U","T","E","D","-","E","D","G","E">>

s_description == <<"d","e","s","c","r","i","p","t","i","o","n"," ","u","p","l","i","n","k">>

\* the spellings of Ethernet1/5, a second target interface, and an
\* interface outside the tracked syntax
HeaderLines ==
  { Header(EthernetName(5)),            \* interface Ethernet1/5
    Header(s_Eth1 \o <<"5">>),          \* interface Eth1/5
    Header(s_ethernet1_lc \o <<"5">>),  \* interface ethernet1/5
    Header(n_eth1_lc5),                 \* interface eth1/5
    Header(n_ETH1_uc5),                 \* interface ETH1/5
    Header(n_ETHERNET1_uc5),            \* interface ETHERNET1/5
    Header(EthernetName(7)),            \* interface Ethernet1/7
    Header(n_Vlan10) }                  \* interface Vlan10

BodyLines ==
  { Body(s_ip_address_value),           \*   ip address 10.0.0.1/30
    Body(s_no_switchport),              \*   no switchport
    Body(s_inherit_BAREMETAL),          \*   inherit port-profile BAREMETAL
    Body(s_inherit_BLOCKER),            \*   inherit port-profile BLOCKER
    Body(s_inherit_ROUTED_EDGE),        \*   inherit port-profile ROUTED-EDGE
    Body(s_description) }               \*   description uplink

ConfigLines == HeaderLines \cup BodyLines

\* the longest configuration text of freely chosen lines, in lines
MaxLines == 3

LineLists == UNION {[1..n -> ConfigLines] : n \in 0..MaxLines}

\* two interface blocks of one statement each
TwoBlockLists ==
  {<<h1, b1, h2, b2>> : h1 \in HeaderLines, b1 \in BodyLines,
                        h2 \in HeaderLines, b2 \in BodyLines}

\* the texts a capture can return: the lines joined by newlines
ConfigTexts == {Join(ls, <<NL>>) : ls \in LineLists \cup TwoBlockLists}

(***************************************************************************)
(* State                                                                   *)
(***************************************************************************)
VARIABLES
  config_text,   \* validate_interfaces: the captured configuration text
  validation     \* validate_interfaces: its return value, NotRun before

varsValidate == <<config_text, validation>>

VARIABLES
  before_validation,  \* analyze_config_failures: the pre-change result dict
  after_validation,   \* analyze_config_failures: the post-change result dict
  analysis            \* analyze_config_failures: its return value

varsAnalyze == <<before_validation, after_validation, analysis>>

VARIABLES
  before_config,  \* create_diff: the configuration text before the change
  after_config,   \* create_diff: the configuration text after the change
  diff            \* create_diff: its return value

varsDiff == <<before_config, after_config, diff>>

VARIABLES
  dry_run,              \* main: args.dry_run
  pc,                   \* main: the nr.run it is at
  device_config,        \* each device's interface configuration before the run
  results,              \* the results of the nr.run in progress, by host
  pre_validation_data,  \* main: line 370
  before_configs,       \* main: line 422
  before_mac_tables,    \* main: line 423
  after_result,         \* main: line 624
  device_log,           \* the commands each device has been sent, in order
  console,              \* the report lines printed, as <<host, text>>
  diff_files            \* the diff files written, by <<host, kind>>

varsFlow == <<dry_run, pc, device_config, results, pre_validation_data,
              before_configs, before_mac_tables, after_result, device_log,
              console, diff_files>>

VARIABLES
  interfaces,  \* condense_interface_ranges: the list it is given
  ranges       \* condense_interface_ranges: its return value, NotRun before

varsCondense == <<interfaces, ranges>>

\* no return value yet
NotRun == [not_run |-> TRUE]

IdleValidate == config_text = <<>> /\ validation = NotRun

IdleAnalyze ==
  /\ before_validation = NotRun
  /\ after_validation = NotRun
  /\ analysis = NotRun

IdleDiff ==
  /\ before_config = <<>>
  /\ after_config = <<>>
  /\ diff = NotRun

IdleCondense == interfaces = <<>> /\ ranges = NotRun

\* the hosts of the inventory
Hosts == {"sw1"}

\* a dict with no keys
EmptyDict == <<>>

IdleFlow ==
  /\ dry_run = FALSE
  /\ pc = "idle"
  /\ device_config = [h \in Hosts |-> <<>>]
  /\ results = EmptyDict
  /\ pre_validation_data = EmptyDict
  /\ before_configs = EmptyDict
  /\ before_mac_tables = EmptyDict
  /\ after_result = EmptyDict
  /\ device_log = [h \in Hosts |-> <<>>]
  /\ console = {}
  /\ diff_files = EmptyDict

vars == <<varsValidate, varsAnalyze, varsDiff, varsFlow, varsCondense>>

(***************************************************************************)
(* SpecValidate: validate_interfaces applied to every configuration text   *)
(***************************************************************************)
InitValidate ==
  /\ config_text \in ConfigTexts
  /\ validation = NotRun
  /\ IdleAnalyze
  /\ IdleDiff
  /\ IdleFlow
  /\ IdleCondense

\* the task validate_interfaces on a capture that returned config_text
Validate ==
  /\ validation = NotRun
  /\ validation' = validate_interfaces(CaptureOk(config_text))
  /\ UNCHANGED <<config_text, varsAnalyze, varsDiff, varsFlow, varsCondense>>

NextValidate == Validate

SpecValidate == InitValidate /\ [][NextValidate]_vars

(***************************************************************************)
(* What a configuration text says, read block by block (the reading the    *)
(* claims are stated in; not the parser's)                                 *)
(***************************************************************************)
TextLines(text) == SplitOn(text, NL)

IsHeaderLine(line) == StartsWith(Strip(line), s_interface_sp)

HeaderName(line) == SplitWords(line)[2]

\* the name is the short or the long form of Ethernet1/<n>, in any case
NamesPort(name, n) ==
  \/ Lower(name) = s_eth1_lc \o Decimal(n)
  \/ Lower(name) = s_ethernet1_lc \o Decimal(n)

\* the target port a header line names, 0 when it names none
PortOfHeader(line) ==
  IF \E n \in 1..LastPort : NamesPort(HeaderName(line), n)
  THEN CHOOSE n \in 1..LastPort : NamesPort(HeaderName(line), n)
  ELSE 0

\* the header line of the block line j lies in, 0 before the first header
OwnerOf(lines, j) ==
  LET before == {i \in 1..(j - 1) : IsHeaderLine(lines[i])}
  IN  IF before = {} THEN 0 ELSE MaxOf(before)

IsInheritLine(line) == StartsWith(Strip(line), s_inherit)

\* an ip or ipv6 address, no switchport, or a routed marker
IsL3Indicator(line) ==
  \/ StartsWith(Strip(line), s_ip_address)
  \/ StartsWith(Strip(line), s_ipv6_address)
  \/ StartsWith(Strip(line), s_no_switchport)
  \/ Contains(Lower(line), s_routed) /\ ~IsInheritLine(line)

\* the headers of the blocks of target port n
BlocksOf(lines, n) ==
  {i \in 1..Len(lines) : IsHeaderLine(lines[i]) /\ PortOfHeader(lines[i]) = n}

\* the body lines of the block headed by line i
BodyOf(lines, i) ==
  {j \in 1..Len(lines) : ~IsHeaderLine(lines[j]) /\ OwnerOf(lines, j) = i}

\* the lines at the indices in keep, in order, joined again
KeepLines(lines, keep) ==
  LET sel == SelectSeq([i \in 1..Len(lines) |-> i], LAMBDA i : i \in keep)
  IN  Join([k \in 1..Len(sel) |-> lines[sel[k]]], <<NL>>)

\* the header name has the tracked syntax Eth1/... or Ethernet1/...
HasTrackedSyntax(name) ==
  \/ StartsWith(Lower(name), s_eth1_lc)
  \/ StartsWith(Lower(name), s_ethernet1_lc)

\* the list(s) of a result that hold the interface
ListsOf(res, interface) ==
  {k \in {"l3_interfaces_skipped", "port_profile_already_applied",
          "port_profile_missing"} : interface \in SetOf(res[k])}

(***************************************************************************)
(* Claims about validate_interfaces (checked under SpecValidate)           *)
(***************************************************************************)
\* the block headed by line i holds an L3 indicator and an inherit statement
BlockHasL3AndInherit(lines, i) ==
  /\ \E j \in BodyOf(lines, i) : IsL3Indicator(lines[j])
  /\ \E j \in BodyOf(lines, i) : IsInheritLine(lines[j])

\* C2: a target interface whose block holds both an L3 indicator and an
\* inherit port-profile statement, in either order, is in
\* l3_interfaces_skipped and in neither of the other two lists.
C2_L3DominatesProfile ==
  validation # NotRun =>
    LET lines == TextLines(config_text)
    IN  \A i \in 1..Len(lines) :
          ( /\ IsHeaderLine(lines[i])
            /\ PortOfHeader(lines[i]) # 0
            /\ BlockHasL3AndInherit(lines, i) )
          => ListsOf(validation, EthernetName(PortOfHeader(lines[i])))
               = {"l3_interfaces_skipped"}

\* the three result lists, one after the other
AllLists(res) ==
  res.l3_interfaces_skipped \o res.port_profile_already_applied
    \o res.port_profile_missing

\* C3: every target interface Ethernet1/1..Ethernet1/46 occurs exactly once in
\* the three result lists together, and nothing else occurs in them.
C3_ExactlyOneState ==
  validation # NotRun =>
    /\ Len(AllLists(validation)) = LastPort
    /\ SetOf(AllLists(validation)) = {EthernetName(n) : n \in 1..LastPort}

\* C3 witness: a classification with all three lists in use
C3_Witness ==
  /\ validation # NotRun
  /\ validation.l3_interfaces_skipped # <<>>
  /\ validation.port_profile_already_applied # <<>>
  /\ validation.port_profile_missing # <<>>

\* the body lines of the blocks whose header is outside the tracked syntax
UntrackedBody(lines) ==
  {j \in 1..Len(lines) :
     /\ ~IsHeaderLine(lines[j])
     /\ OwnerOf(lines, j) # 0
     /\ ~HasTrackedSyntax(HeaderName(lines[OwnerOf(lines, j)]))}

\* C4: the classification is the one the text gets with the body lines of
\* its untracked blocks (interface Vlan10, ...) removed.
C4_UntrackedBodyNotAttributed ==
  validation # NotRun =>
    LET lines == TextLines(config_text)
        kept  == (1..Len(lines)) \ UntrackedBody(lines)
    IN  validation = validate_interfaces(CaptureOk(KeepLines(lines, kept)))

\* the body lines of a block of a target interface that has a later block
SupersededBody(lines) ==
  {j \in 1..Len(lines) :
     /\ ~IsHeaderLine(lines[j])
     /\ OwnerOf(lines, j) # 0
     /\ PortOfHeader(lines[OwnerOf(lines, j)]) # 0
     /\ \E i \in (OwnerOf(lines, j) + 1)..Len(lines) :
          /\ IsHeaderLine(lines[i])
          /\ PortOfHeader(lines[i]) = PortOfHeader(lines[OwnerOf(lines, j)])}

\* C10: when an interface has more than one block, the classification is the
\* one the text gets from the last block alone: the body lines of its
\* earlier blocks have no effect.
C10_LastBlockOnly ==
  validation # NotRun =>
    LET lines == TextLines(config_text)
        kept  == (1..Len(lines)) \ SupersededBody(lines)
    IN  validation = validate_interfaces(CaptureOk(KeepLines(lines, kept)))

\* C11: a target interface that has an inherit port-profile line in a block
\* and no L3 indicator line in any of its blocks is in
\* port_profile_already_applied (ALREADY_COMPLIANT or OTHER_PROFILE_PRESENT)
\* and in neither l3_interfaces_skipped nor port_profile_missing, whatever the
\* profile name is.
C11_InheritRecordsProfile ==
  validation # NotRun =>
    LET lines == TextLines(config_text)
    IN  \A n \in {PortOfHeader(lines[i]) :
                    i \in {k \in 1..Len(lines) : IsHeaderLine(lines[k])}} \ {0} :
          ( /\ \E i \in BlocksOf(lines, n) :
                 \E j \in BodyOf(lines, i) : IsInheritLine(lines[j])
            /\ \A i \in BlocksOf(lines, n) :
                 \A j \in BodyOf(lines, i) : ~IsL3Indicator(lines[j]) )
          => ListsOf(validation, EthernetName(n))
               = {"port_profile_already_applied"}

\* the text with every header that names a target port in the short or the
\* long form, in any letter case, spelled Ethernet1/<n>
CanonicalSpelling(text) ==
  LET lines == TextLines(text)
  IN  Join([i \in 1..Len(lines) |->
              IF IsHeaderLine(lines[i]) /\ PortOfHeader(lines[i]) # 0
              THEN Header(EthernetName(PortOfHeader(lines[i])))
              ELSE lines[i]],
           <<NL>>)

\* C12: the classification does not depend on the spelling of the header
\* names: it is the one the text gets with every Eth1/<n> or Ethernet1/<n>
\* header, in any letter case, spelled Ethernet1/<n>.
C12_SpellingDoesNotMatter ==
  validation # NotRun =>
    validation = validate_interfaces(CaptureOk(CanonicalSpelling(config_text)))

(***************************************************************************)
(* Spec: the workflow of main() (lines 334-697)                            *)
(*                                                                         *)
(* nr.run(task=...) runs the task once for every host and returns their    *)
(* results; main() then loops over the results.  One action is one host's  *)
(* task; one action is the loop of main() that follows the run.            *)
(***************************************************************************)
\* the interface configurations a device can hold
DeviceTexts ==
  { Join(<<Header(EthernetName(5)), Body(s_inherit_BAREMETAL),
           Header(EthernetName(7)), Body(s_ip_address_value)>>, <<NL>>),
    Join(<<Header(EthernetName(5)), Body(s_description)>>, <<NL>>),
    Join(<<Header(n_eth1_lc5), Body(s_no_switchport)>>, <<NL>>) }

\* the texts "show running-config" can return
RunningTexts == { <<"!", "1", NL, "a">>, <<"!", "2", NL, "a", NL, "b">> }

\* the texts "show mac address-table" can return; the first is no data
MacTexts == { <<>>, <<"m">>, <<"m", NL, "n">> }

\* the result nr.run holds for a host whose task returned value
Returned(value) == [failed |-> FALSE, result |-> value]

\* the result it holds for a host whose task raised
Raised == [failed |-> TRUE, result |-> None]

\* validate_interfaces and get_mac_table catch the exception of their
\* capture and return normally (lines 144-148, 67-69).  Whether the result of
\* such a host then counts as failed is the runner's business: main() deals
\* with both (line 413 reads the error of a result that did not fail, line
\* 416 reports one that did).
CaughtFailureFlags == BOOLEAN

ShowRunInterface == "show running-config interface"

ShowRun == "show running-config"

ShowMac == "show mac address-table"

\* a netmiko_send_command the device was sent, and whether it answered
ShowEntry(command, ok) ==
  [kind |-> "show", command |-> command, ok |-> ok, commands |-> <<>>]

\* a netmiko_send_config the device was sent
ConfigEntry(commands) ==
  [kind |-> "config", command |-> "", ok |-> TRUE, commands |-> commands]

m_all_already == <<"A","l","l"," ","4","6"," ","p","o","r","t","-","p","r","o","f","i","l","e","s"," ","a","l","r","e","a","d","y"," ","a","p","p","l","i","e","d">>

m_all_success == <<"A","l","l"," ","4","6"," ","p","o","r","t","-","p","r","o","f","i","l","e","s"," ","s","u","c","c","e","s","s","f","u","l","l","y"," ","a","p","p","l","i","e","d">>

m_of_46 == <<"/","4","6"," ","a","p","p","l","i","e","d",","," ">>

m_missing == <<" ","m","i","s","s","i","n","g">>

m_still_missing == <<" ","s","t","i","l","l"," ","m","i","s","s","i","n","g">>

m_error == <<"E","r","r","o","r",":"," ">>

m_validation_failed == <<"V","a","l","i","d","a","t","i","o","n"," ","f","a","i","l","e","d">>

m_post_validation_failed == <<"P","o","s","t","-","v","a","l","i","d","a","t","i","o","n"," ","f","a","i","l","e","d">>

m_skipping == <<"N","o"," ","i","n","t","e","r","f","a","c","e","s"," ","n","e","e","d"," ","c","o","n","f","i","g","u","r","a","t","i","o","n"," ","-"," ","s","k","i","p","p","i","n","g">>

m_configuring == <<"C","o","n","f","i","g","u","r","i","n","g"," ">>

m_interfaces == <<" ","i","n","t","e","r","f","a","c","e","s">>

m_rate == <<"C","o","n","f","i","g","u","r","a","t","i","o","n"," ","s","u","c","c","e","s","s"," ","r","a","t","e",":"," ">>

m_plan_configure == <<"C","O","N","F","I","G","U","R","E",":"," ">>

m_need_port_profile == <<" ","i","n","t","e","r","f","a","c","e","s"," ","n","e","e","d"," ","p","o","r","t","-","p","r","o","f","i","l","e">>

m_plan_nothing == <<"N","o"," ","c","o","n","f","i","g","u","r","a","t","i","o","n"," ","n","e","e","d","e","d"," ","-"," ","a","l","l"," ","p","o","r","t","-","p","r","o","f","i","l","e","s"," ","a","l","r","e","a","d","y"," ","a","p","p","l","i","e","d">>

\* lines 377-386 and 552-561: the summary line of a result that did not fail
SummaryLine(validation_data, all_applied, missing_word) ==
  LET missing_count == Len(Get(validation_data, "port_profile_missing", <<>>))
      applied_count == Get(validation_data, "port_profile_applied", 0)
  IN  IF missing_count = 0 THEN all_applied
      ELSE Decimal(applied_count) \o m_of_46 \o Decimal(missing_count)
             \o missing_word

\* lines 413-414 and 614-615
ErrorLines(hostname, validation_data) ==
  IF Truthy(Get(validation_data, "error", <<>>))
  THEN {<<hostname, m_error \o validation_data.error>>}
  ELSE {}

\* lines 372-416: what the loop prints for one host
PreValidationLines(hostname, result) ==
  IF ~result.failed
  THEN {<<hostname, SummaryLine(result.result, m_all_already, m_missing)>>}
         \cup ErrorLines(hostname, result.result)
  ELSE {<<hostname, m_validation_failed>>}

\* lines 607-612
RateLines(hostname, validation_data) ==
  IF hostname \in DOMAIN pre_validation_data
  THEN LET failure_analysis ==
             analyze_config_failures(pre_validation_data[hostname],
                                     validation_data, hostname)
       IN  IF ~Falsy(failure_analysis)
           THEN {<<hostname, m_rate \o failure_analysis.configuration_success_rate>>}
           ELSE {}
  ELSE {}

\* lines 548-617: what the loop prints for one host
PostValidationLines(hostname, result) ==
  IF ~result.failed
  THEN {<<hostname, SummaryLine(result.result, m_all_success, m_still_missing)>>}
         \cup RateLines(hostname, result.result)
         \cup ErrorLines(hostname, result.result)
  ELSE {<<hostname, m_post_validation_failed>>}

\* lines 469-470 and 490-497: what the plan prints for one host about the
\* interfaces to configure
PlanLines(hostname) ==
  LET missing_interfaces ==
        Get(pre_validation_data[hostname], "port_profile_missing", <<>>)
  IN  IF Truthy(missing_interfaces)
      THEN {<<hostname, m_plan_configure \o Decimal(Len(missing_interfaces))
                          \o m_need_port_profile>>}
      ELSE {<<hostname, m_plan_nothing>>}

InitFlow ==
  /\ dry_run \in BOOLEAN
  /\ pc = "pre_validation"
  /\ device_config \in [Hosts -> DeviceTexts]
  /\ results = EmptyDict
  /\ pre_validation_data = EmptyDict
  /\ before_configs = EmptyDict
  /\ before_mac_tables = EmptyDict
  /\ after_result = EmptyDict
  /\ device_log = [h \in Hosts |-> <<>>]
  /\ console = {}
  /\ diff_files = EmptyDict
  /\ IdleValidate
  /\ IdleAnalyze
  /\ IdleDiff
  /\ IdleCondense

\* the run of the current nr.run has a result for every host
RunComplete == DOMAIN results = Hosts

\* lines 71-148 as a task of lines 369 and 546
ValidateTask(h) ==
  /\ pc \in {"pre_validation", "post_validation"}
  /\ h \notin DOMAIN results
  /\ \E capture \in {CaptureRaised} \cup
                    (IF pc = "pre_validation"
                     THEN {CaptureOk(device_config[h])}
                     ELSE {CaptureOk(t) : t \in DeviceTexts}) :
       \E failed \in (IF capture.ok THEN {FALSE} ELSE CaughtFailureFlags) :
         /\ results' = results @@
              (h :> [failed |-> failed, result |-> validate_interfaces(capture)])
         /\ device_log' = [device_log EXCEPT
              ![h] = Append(@, ShowEntry(ShowRunInterface, capture.ok))]
  /\ UNCHANGED <<dry_run, pc, device_config, pre_validation_data, before_configs,
                 before_mac_tables, after_result, console, diff_files,
                 varsValidate, varsAnalyze, varsDiff, varsCondense>>

\* lines 370-416
ReportPreValidation ==
  /\ pc = "pre_validation"
  /\ RunComplete
  /\ pre_validation_data' =
       [h \in {x \in Hosts : ~results[x].failed} |-> results[h].result]
  /\ console' = console \cup
       UNION {PreValidationLines(h, results[h]) : h \in Hosts}
  /\ results' = EmptyDict
  /\ pc' = "before_config"
  /\ UNCHANGED <<dry_run, device_config, before_configs, before_mac_tables,
                 after_result, device_log, diff_files,
                 varsValidate, varsAnalyze, varsDiff, varsCondense>>

\* lines 57-60 as a task of lines 426 and 624
GetRunningConfigTask(h) ==
  /\ pc \in {"before_config", "after_config"}
  /\ h \notin DOMAIN results
  /\ \/ \E t \in RunningTexts :
          /\ results' = results @@ (h :> Returned(t))
          /\ device_log' = [device_log EXCEPT
               ![h] = Append(@, ShowEntry(ShowRun, TRUE))]
     \/ /\ results' = results @@ (h :> Raised)
        /\ device_log' = [device_log EXCEPT
             ![h] = Append(@, ShowEntry(ShowRun, FALSE))]
  /\ UNCHANGED <<dry_run, pc, device_config, pre_validation_data, before_configs,
                 before_mac_tables, after_result, console, diff_files,
                 varsValidate, varsAnalyze, varsDiff, varsCondense>>

\* lines 437 and 455 taken as if dry_run were never set
AfterBeforeConfigs_IgnoresDryRun(dry) == "before_mac"

\* lines 437 and 455: what follows the capture of the configurations
AfterBeforeConfigs(dry) == IF dry THEN "dry_run_plan" ELSE "before_mac"

\* lines 429-434: the captured configurations are stored
StoreBeforeConfigs ==
  /\ pc = "before_config"
  /\ RunComplete
  /\ before_configs' =
       [h \in {x \in Hosts : ~results[x].failed} |-> results[h].result]
  /\ results' = EmptyDict
  /\ pc' = AfterBeforeConfigs(dry_run)
  /\ UNCHANGED <<dry_run, device_config, pre_validation_data, before_mac_tables,
                 after_result, device_log, console, diff_files,
                 varsValidate, varsAnalyze, varsDiff, varsCondense>>

\* lines 62-69 as a task of lines 440 and 629
GetMacTableTask(h) ==
  /\ pc \in {"before_mac", "after_mac"}
  /\ h \notin DOMAIN results
  /\ \/ \E t \in MacTexts :
          /\ results' = results @@ (h :> Returned(t))
          /\ device_log' = [device_log EXCEPT
               ![h] = Append(@, ShowEntry(ShowMac, TRUE))]
     \/ \E failed \in CaughtFailureFlags :
          /\ results' = results @@ (h :> [failed |-> failed, result |-> None])
          /\ device_log' = [device_log EXCEPT
               ![h] = Append(@, ShowEntry(ShowMac, FALSE))]
  /\ UNCHANGED <<dry_run, pc, device_config, pre_validation_data, before_configs,
                 before_mac_tables, after_result, console, diff_files,
                 varsValidate, varsAnalyze, varsDiff, varsCondense>>

\* line 506 left out: the interfaces are configured next
AfterBeforeMacTables_SkipsProfile == "configure_interfaces"

\* lines 504-506: what follows the capture of the MAC tables
AfterBeforeMacTables == "configure_profile"

\* lines 443-448
StoreBeforeMacTables ==
  /\ pc = "before_mac"
  /\ RunComplete
  /\ before_mac_tables' =
       [h \in {x \in Hosts : ~results[x].failed /\ Truthy(results[x].result)}
          |-> results[h].result]
  /\ results' = EmptyDict
  /\ pc' = AfterBeforeMacTables
  /\ UNCHANGED <<dry_run, device_config, pre_validation_data, before_configs,
                 after_result, device_log, console, diff_files,
                 varsValidate, varsAnalyze, varsDiff, varsCondense>>

\* lines 455-502: the plan is printed and main() returns
DryRunPlan ==
  /\ pc = "dry_run_plan"
  /\ console' = console \cup
       UNION {PlanLines(h) : h \in DOMAIN pre_validation_data}
  /\ pc' = "done"
  /\ UNCHANGED <<dry_run, device_config, results, pre_validation_data,
                 before_configs, before_mac_tables, after_result, device_log,
                 diff_files, varsValidate, varsAnalyze, varsDiff, varsCondense>>

\* lines 257-266 as a task of line 506; the send may raise
ConfigurePortProfileTask(h) ==
  /\ pc = "configure_profile"
  /\ h \notin DOMAIN results
  /\ device_log' = [device_log EXCEPT
       ![h] = Append(@, ConfigEntry(PortProfileCommands))]
  /\ \E r \in {Returned(None), Raised} : results' = results @@ (h :> r)
  /\ UNCHANGED <<dry_run, pc, device_config, pre_validation_data, before_configs,
                 before_mac_tables, after_result, console, diff_files,
                 varsValidate, varsAnalyze, varsDiff, varsCondense>>

\* lines 508-516
ReportPortProfile ==
  /\ pc = "configure_profile"
  /\ RunComplete
  /\ results' = EmptyDict
  /\ pc' = "configure_interfaces"
  /\ UNCHANGED <<dry_run, device_config, pre_validation_data, before_configs,
                 before_mac_tables, after_result, device_log, console,
                 diff_files, varsValidate, varsAnalyze, varsDiff, varsCondense>>

\* lines 520-531 with 268-279, as a task of line 533; the send may raise
ConfigureInterfacesTask(h) ==
  /\ pc = "configure_interfaces"
  /\ h \notin DOMAIN results
  /\ LET did == configure_interfaces_for_host(h, pre_validation_data)
     IN  IF did.sends
         THEN /\ device_log' = [device_log EXCEPT
                   ![h] = Append(@, ConfigEntry(did.commands))]
              /\ console' = console \cup
                   (IF h \in DOMAIN pre_validation_data
                    THEN {<<h, m_configuring
                                 \o Decimal(Len(did.commands) \div 3)
                                 \o m_interfaces>>}
                    ELSE {})
              /\ \E r \in {Returned(None), Raised} :
                   results' = results @@ (h :> r)
         ELSE /\ device_log' = device_log
              /\ console' = console \cup {<<h, m_skipping>>}
              /\ results' = results @@ (h :> Returned(None))
  /\ UNCHANGED <<dry_run, pc, device_config, pre_validation_data, before_configs,
                 before_mac_tables, after_result, diff_files,
                 varsValidate, varsAnalyze, varsDiff, varsCondense>>

\* lines 535-543
ReportInterfaces ==
  /\ pc = "configure_interfaces"
  /\ RunComplete
  /\ results' = EmptyDict
  /\ pc' = "post_validation"
  /\ UNCHANGED <<dry_run, device_config, pre_validation_data, before_configs,
                 before_mac_tables, after_result, device_log, console,
                 diff_files, varsValidate, varsAnalyze, varsDiff, varsCondense>>

\* lines 548-620
ReportPostValidation ==
  /\ pc = "post_validation"
  /\ RunComplete
  /\ console' = console \cup
       UNION {PostValidationLines(h, results[h]) : h \in Hosts}
  /\ results' = EmptyDict
  /\ pc' = "after_config"
  /\ UNCHANGED <<dry_run, device_config, pre_validation_data, before_configs,
                 before_mac_tables, after_result, device_log, diff_files,
                 varsValidate, varsAnalyze, varsDiff, varsCondense>>

\* lines 624-629: the final configurations are in, the final MAC tables are
\* captured next
KeepAfterResult ==
  /\ pc = "after_config"
  /\ RunComplete
  /\ after_result' = results
  /\ results' = EmptyDict
  /\ pc' = "after_mac"
  /\ UNCHANGED <<dry_run, device_config, pre_validation_data, before_configs,
                 before_mac_tables, device_log, console, diff_files,
                 varsValidate, varsAnalyze, varsDiff, varsCondense>>

\* lines 636-664: the configuration diff of a host, None when there is none
\* to save
ConfigDiffOf(h) ==
  IF ~after_result[h].failed /\ h \in DOMAIN before_configs
  THEN create_diff(before_configs[h], after_result[h].result, h)
  ELSE None

\* lines 672-693: the MAC table diff of a host, None when there is none to
\* save
MacDiffOf(h) ==
  IF ~results[h].failed /\ Truthy(results[h].result)
       /\ h \in DOMAIN before_mac_tables
  THEN create_table_diff(before_mac_tables[h], results[h].result, h, "mac")
  ELSE None

\* lines 631-697: the diffs worth saving are written
ProcessDiffs ==
  /\ pc = "after_mac"
  /\ RunComplete
  /\ diff_files' =
       [f \in {<<h, "config">> : h \in {x \in Hosts : Truthy(ConfigDiffOf(x))}}
              \cup {<<h, "mac">> : h \in {x \in Hosts : Truthy(MacDiffOf(x))}}
          |-> IF f[2] = "config" THEN ConfigDiffOf(f[1]) ELSE MacDiffOf(f[1])]
  /\ results' = EmptyDict
  /\ pc' = "done"
  /\ UNCHANGED <<dry_run, device_config, pre_validation_data, before_configs,
                 before_mac_tables, after_result, device_log, console,
                 varsValidate, varsAnalyze, varsDiff, varsCondense>>

Next ==
  \/ \E h \in Hosts : ValidateTask(h)
  \/ ReportPreValidation
  \/ \E h \in Hosts : GetRunningConfigTask(h)
  \/ StoreBeforeConfigs
  \/ \E h \in Hosts : GetMacTableTask(h)
  \/ StoreBeforeMacTables
  \/ DryRunPlan
  \/ \E h \in Hosts : ConfigurePortProfileTask(h)
  \/ ReportPortProfile
  \/ \E h \in Hosts : ConfigureInterfacesTask(h)
  \/ ReportInterfaces
  \/ ReportPostValidation
  \/ KeepAfterResult
  \/ ProcessDiffs

Spec == InitFlow /\ [][Next]_vars

(***************************************************************************)
(* Claims about the workflow (checked under Spec)                          *)
(***************************************************************************)
\* the target ports that carry an L3 indicator in the text
L3Ports(text) ==
  LET lines == TextLines(text)
  IN  {PortOfHeader(lines[i]) :
         i \in {k \in 1..Len(lines) :
                  /\ IsHeaderLine(lines[k])
                  /\ \E j \in BodyOf(lines, k) : IsL3Indicator(lines[j])}}
        \ {0}

\* the configuration commands host h has been sent
ConfigCommandsSent(h) ==
  UNION {SetOf(device_log[h][k].commands) :
           k \in {i \in 1..Len(device_log[h]) : device_log[h][i].kind = "config"}}

\* C1: in a run that is not a dry run, no device is sent "interface <id>"
\* for an interface that carries an L3 indicator in the device's pre-change
\* interface configuration.
C1_NoL3InterfaceConfigured ==
  ~dry_run =>
    \A h \in Hosts : \A n \in L3Ports(device_config[h]) :
      (s_interface_sp \o EthernetName(n)) \notin ConfigCommandsSent(h)

\* the capture of the pre-change validation of host h failed
PreCaptureFailed(h) ==
  /\ Len(device_log[h]) >= 1
  /\ device_log[h][1] = ShowEntry(ShowRunInterface, FALSE)

\* the capture of the post-change validation of host h failed
PostCaptureFailed(h) ==
  \E k \in 2..Len(device_log[h]) :
    device_log[h][k] = ShowEntry(ShowRunInterface, FALSE)

\* a success rate was printed for host h
RatePrinted(h) ==
  \E e \in console : e[1] = h /\ StartsWith(e[2], m_rate)

C6_DryRunSendsNoConfiguration ==
  dry_run =>
    \A h \in Hosts : \A k \in 1..Len(device_log[h]) :
      device_log[h][k].kind = "show"

\* a dry run ended with a plan to configure interfaces of a device, which
\* was sent the two show commands up to there and nothing else
C6_Witness ==
  /\ dry_run
  /\ pc = "done"
  /\ \E h \in Hosts :
       /\ \E e \in console : e[1] = h /\ StartsWith(e[2], m_plan_configure)
       /\ Len(device_log[h]) = 2
       /\ device_log[h][2] = ShowEntry(ShowRun, TRUE)

\* entry k of the log is a configuration send
IsConfigAt(log, k) == log[k].kind = "config"

\* entry k of the log sends "interface <id>" / "inherit port-profile
\* BAREMETAL" commands
IsInterfaceConfigAt(log, k) ==
  IsConfigAt(log, k) /\ s_inherit_BAREMETAL \in SetOf(log[k].commands)

\* entry k of the log sends the definition of the profile
IsProfileConfigAt(log, k) ==
  IsConfigAt(log, k) /\ log[k].commands = PortProfileCommands

\* entry k of the log is a capture of the post-change phase
IsPostCaptureAt(log, k) == log[k].kind = "show" /\ k > 3

\* C16: in a run that is not a dry run, for every device: the three
\* pre-change captures (classification, configuration, MAC table) are done,
\* in this order, before any configuration command is sent; the profile
\* definition is sent before any interface command; once a post-change
\* capture has begun the interface step is over and no configuration command
\* follows; and a diff is written only from a capture at its pre-change
\* place and a capture after every configuration command.
C16_PhasesInOrder ==
  ~dry_run =>
    \A h \in Hosts :
      LET log == device_log[h]
      IN  /\ \A k \in 1..Len(log) :
                IsConfigAt(log, k) =>
                  /\ k > 3
                  /\ log[1].command = ShowRunInterface
                  /\ log[2].command = ShowRun
                  /\ log[3].command = ShowMac
                  /\ \A j \in 1..3 : log[j].kind = "show"
          /\ \A k \in 1..Len(log) :
                IsInterfaceConfigAt(log, k) =>
                  \E j \in 1..(k - 1) : IsProfileConfigAt(log, j)
          /\ \A k \in 1..Len(log) :
                IsPostCaptureAt(log, k) =>
                  /\ pc \in {"post_validation", "after_config", "after_mac",
                             "done"}
                  /\ \A j \in (k + 1)..Len(log) : ~IsConfigAt(log, j)
          /\ \A kind \in {"config", "mac"} :
                <<h, kind>> \in DOMAIN diff_files =>
                  LET command == IF kind = "config" THEN ShowRun ELSE ShowMac
                      place   == IF kind = "config" THEN 2 ELSE 3
                  IN  /\ pc = "done"
                      /\ log[place] = ShowEntry(command, TRUE)
                      /\ \E k \in 4..Len(log) :
                           /\ log[k] = ShowEntry(command, TRUE)
                           /\ \A j \in 1..Len(log) : IsConfigAt(log, j) => j < k

\* a run that configured interfaces of a device between its two rounds of
\* captures and wrote both diffs of the device
C16_Witness ==
  /\ ~dry_run
  /\ pc = "done"
  /\ \E h \in Hosts :
       /\ Len(device_log[h]) = 8
       /\ IsProfileConfigAt(device_log[h], 4)
       /\ IsInterfaceConfigAt(device_log[h], 5)
       /\ <<h, "config">> \in DOMAIN diff_files
       /\ <<h, "mac">> \in DOMAIN diff_files

(***************************************************************************)
(* SpecAnalyze: analyze_config_failures applied to every pair of result    *)
(* dicts                                                                   *)
(***************************************************************************)
\* the ports whose state varies from one classification to the next
AnalyzePorts == 2

PortStates == {"l3", "baremetal", "other", "none"}

\* the facts that give ports 1..AnalyzePorts the states st and every other
\* port the state rest
FactsFor(st, rest) ==
  LET StateOf(n) == IF n <= AnalyzePorts THEN st[n] ELSE rest
      With(x)    == {EthernetName(n) : n \in {m \in 1..LastPort : StateOf(m) = x}}
  IN  [current_interface         |-> None,
       l3_interfaces             |-> With("l3"),
       interfaces_with_baremetal |-> With("baremetal"),
       interfaces_with_profile   |-> With("baremetal") \cup With("other")]

\* the result dicts validate_interfaces returns for them
Classifications ==
  {Classify(FactsFor(st, rest)) :
     st \in [1..AnalyzePorts -> PortStates], rest \in {"none", "baremetal"}}

\* and the dict it returns when the capture raised
ResultDicts == Classifications \cup {validate_interfaces(CaptureRaised)}

InitAnalyze ==
  /\ before_validation \in ResultDicts
  /\ after_validation \in ResultDicts
  /\ analysis = NotRun
  /\ IdleValidate
  /\ IdleDiff
  /\ IdleFlow
  /\ IdleCondense

Analyze ==
  /\ analysis = NotRun
  /\ analysis' =
       analyze_config_failures(before_validation, after_validation, "sw1")
  /\ UNCHANGED <<before_validation, after_validation, varsValidate, varsDiff,
                 varsFlow, varsCondense>>

NextAnalyze == Analyze

SpecAnalyze == InitAnalyze /\ [][NextAnalyze]_vars

(***************************************************************************)
(* Claims about analyze_config_failures (checked under SpecAnalyze)        *)
(***************************************************************************)
IsClassification(d) == "port_profile_missing" \in DOMAIN d

TargetNames == {EthernetName(n) : n \in 1..LastPort}

\* the interfaces a classification holds as NON_COMPLIANT
NonCompliant(d) == {x \in TargetNames : x \in SetOf(d.port_profile_missing)}

Analyzed ==
  /\ analysis # NotRun
  /\ IsClassification(before_validation)
  /\ IsClassification(after_validation)

\* s ends with suffix
EndsWith(s, suffix) ==
  Len(s) >= Len(suffix) /\ SubSeq(s, Len(s) - Len(suffix) + 1, Len(s)) = suffix

\* the rate text says c of a, and a percentage within half a tenth of
\* 100 * c / a, or 100.0 when a = 0
RateIs(text, c, a) ==
  \E tenths \in 0..1000 :
    /\ IF a = 0 THEN tenths = 1000
       ELSE 2 * (tenths * a - 1000 * c) <= a /\ 2 * (1000 * c - tenths * a) <= a
    /\ text = Decimal(c) \o <<"/">> \o Decimal(a) \o <<" ", "(">>
                \o Decimal(tenths \div 10) \o <<".">> \o Decimal(tenths % 10)
                \o <<"%", ")">>

\* C7: the analysis is the reference result: still_missing is NON_COMPLIANT
\* before and after, successfully_configured NON_COMPLIANT before and not
\* after, new_failures NON_COMPLIANT after and not before; the three are
\* pairwise disjoint, the first two make up the pre NON_COMPLIANT set, and the
\* rate is |successfully_configured| of |pre NON_COMPLIANT|, 100% of none.
C7_AnalysisIsReference ==
  Analyzed =>
    LET pre  == NonCompliant(before_validation)
        post == NonCompliant(after_validation)
    IN  /\ analysis.still_missing = {x \in TargetNames : x \in pre /\ x \in post}
        /\ analysis.successfully_configured =
             {x \in TargetNames : x \in pre /\ x \notin post}
        /\ analysis.new_failures =
             {x \in TargetNames : x \in post /\ x \notin pre}
        /\ analysis.still_missing \cap analysis.successfully_configured = {}
        /\ analysis.still_missing \cap analysis.new_failures = {}
        /\ analysis.successfully_configured \cap analysis.new_failures = {}
        /\ analysis.still_missing \cup analysis.successfully_configured = pre
        /\ RateIs(analysis.configuration_success_rate,
                  Cardinality({x \in pre : x \notin post}), Cardinality(pre))

\* C7 witness: an analysis with an interface in each of the three sets, one
\* of them compliant before and NON_COMPLIANT after
C7_Witness ==
  /\ Analyzed
  /\ analysis.still_missing # {}
  /\ analysis.successfully_configured # {}
  /\ \E x \in analysis.new_failures :
       x \in SetOf(before_validation.port_profile_already_applied)

s_100_percent == <<"(","1","0","0",".","0","%",")">>

\* C8 as stated: on identical pre and post classifications the rate is 100%
\* and successfully_configured and new_failures are empty.
C8_IdenticalGives100Percent ==
  (Analyzed /\ before_validation = after_validation) =>
    /\ EndsWith(analysis.configuration_success_rate, s_100_percent)
    /\ analysis.successfully_configured = {}
    /\ analysis.new_failures = {}

\* C8 amended: on identical pre and post classifications
\* successfully_configured and new_failures are empty, still_missing is the
\* NON_COMPLIANT set, and the rate is 100% when that set is empty and 0 of n
\* (0.0%) when it has n > 0 interfaces.
C8_IdenticalGivesNothingConfigured ==
  (Analyzed /\ before_validation = after_validation) =>
    LET n == Cardinality(NonCompliant(before_validation))
    IN  /\ analysis.successfully_configured = {}
        /\ analysis.new_failures = {}
        /\ analysis.still_missing = NonCompliant(before_validation)
        /\ analysis.configuration_success_rate =
             IF n = 0
             THEN <<"0", "/", "0", " ">> \o s_100_percent
             ELSE <<"0", "/">> \o Decimal(n)
                    \o <<" ", "(", "0", ".", "0", "%", ")">>

\* C8 witness: identical classifications with NON_COMPLIANT interfaces
C8_Witness ==
  /\ Analyzed
  /\ before_validation = after_validation
  /\ NonCompliant(before_validation) # {}

(***************************************************************************)
(* SpecDiff: create_diff applied to every pair of texts                    *)
(***************************************************************************)
\* the longest text of SpecDiff, in characters
MaxChars == 3

\* a letter, the comment marker, a blank and the newline
DiffChars == {"a", "!", " ", NL}

DiffTexts == UNION {[1..n -> DiffChars] : n \in 0..MaxChars}

InitDiff ==
  /\ before_config \in DiffTexts
  /\ after_config \in DiffTexts
  /\ diff = NotRun
  /\ IdleValidate
  /\ IdleAnalyze
  /\ IdleFlow
  /\ IdleCondense

CreateDiff ==
  /\ diff = NotRun
  /\ diff' = [returned |-> create_diff(before_config, after_config, "sw1")]
  /\ UNCHANGED <<before_config, after_config, varsValidate, varsAnalyze,
                 varsFlow, varsCondense>>

NextDiff == CreateDiff

SpecDiff == InitDiff /\ [][NextDiff]_vars

(***************************************************************************)
(* Claims about create_diff (checked under SpecDiff)                       *)
(***************************************************************************)
\* the text without its comment lines: each line with its newline, the lines
\* whose first non-whitespace character is "!" left out
WithoutCommentLines(text) ==
  Concat(SelectSeq(SplitLinesKeepEnds(text),
                   LAMBDA line : ~StartsWith(Strip(line), s_bang)))

\* C9: two texts that differ only in comment lines (added, removed or
\* changed anywhere, the last line with or without its newline) give no diff.
C9_CommentOnlyChangeGivesNoDiff ==
  ( /\ diff # NotRun
    /\ WithoutCommentLines(before_config) = WithoutCommentLines(after_config) )
  => diff.returned = None

(***************************************************************************)
(* SpecCondense: condense_interface_ranges applied to every list of up to  *)
(* MaxIds identifiers                                                      *)
(***************************************************************************)
\* the port numbers of the identifiers: a run of three, a single, and a run
\* across the step from one digit to two
CondensePorts == {1, 2, 3, 5, 9, 10}

n_Ethernet1_x == <<"E","t","h","e","r","n","e","t","1","/","x">>

\* identifiers that give no number: one without the prefix, one whose
\* suffix is no integer
OtherIds == {n_Vlan10, n_Ethernet1_x}

InterfaceIds == {EthernetName(n) : n \in CondensePorts} \cup OtherIds

\* the longest list, in identifiers
MaxIds == 4

InterfaceLists == UNION {[1..n -> InterfaceIds] : n \in 0..MaxIds}

InitCondense ==
  /\ interfaces \in InterfaceLists
  /\ ranges = NotRun
  /\ IdleValidate
  /\ IdleAnalyze
  /\ IdleDiff
  /\ IdleFlow

Condense ==
  /\ ranges = NotRun
  /\ ranges' = [returned |-> condense_interface_ranges(interfaces)]
  /\ UNCHANGED <<interfaces, varsValidate, varsAnalyze, varsDiff, varsFlow>>

NextCondense == Condense

SpecCondense == InitCondense /\ [][NextCondense]_vars

(***************************************************************************)
(* Claims about condense_interface_ranges (checked under SpecCondense)     *)
(***************************************************************************)
\* the identifier is Ethernet1/<n> for a port number n
IsEthernetId(id) == \E n \in CondensePorts : id = EthernetName(n)

\* the port number of such an identifier
PortOfId(id) == CHOOSE n \in CondensePorts : id = EthernetName(n)

\* the port numbers a list names
PortsNamed(list) ==
  {PortOfId(list[k]) : k \in {i \in 1..Len(list) : IsEthernetId(list[i])}}

\* the elements of a set of numbers in ascending order
Ascending(S) ==
  [k \in 1..Cardinality(S) |->
     CHOOSE v \in S : Cardinality({w \in S : w <= v}) = k]

\* the maximal runs of consecutive numbers of S in ascending order, each
\* rendered Ethernet1/<n> or Ethernet1/<first>-<last>
MaximalRuns(S) ==
  LET firsts == Ascending({n \in S : (n - 1) \notin S})
      lasts  == Ascending({n \in S : (n + 1) \notin S})
  IN  [k \in 1..Len(firsts) |->
         IF firsts[k] = lasts[k] THEN EthernetName(firsts[k])
         ELSE EthernetName(firsts[k]) \o <<"-">> \o Decimal(lasts[k])]

\* C13: for a list of Ethernet1/<n> identifiers, in any order and with
\* repetitions, the result is the maximal runs of the numbers named, in
\* ascending order.
C13_MaximalRunsAscending ==
  ( /\ ranges # NotRun
    /\ \A k \in 1..Len(interfaces) : IsEthernetId(interfaces[k]) )
  => ranges.returned = MaximalRuns(PortsNamed(interfaces))

\* C14: in a list that mixes Ethernet1/<n> identifiers with identifiers that
\* give no number, each of the latter is an entry of the result, and the
\* others are condensed.
C14_UnparseablePassThrough ==
  ( /\ ranges # NotRun
    /\ \E k \in 1..Len(interfaces) : IsEthernetId(interfaces[k])
    /\ \E k \in 1..Len(interfaces) : interfaces[k] \in OtherIds )
  => /\ \A k \in 1..Len(interfaces) :
          interfaces[k] \in OtherIds => interfaces[k] \in SetOf(ranges.returned)
     /\ \A r \in SetOf(MaximalRuns(PortsNamed(interfaces))) :
          r \in SetOf(ranges.returned)

\* the identifiers a range string stands for: Ethernet1/<a>-<b> gives
\* Ethernet1/<a> .. Ethernet1/<b>, any other string itself
ExpandRange(range_str) ==
  LET parts == SplitOn(range_str, "-")
  IN  IF Len(parts) = 2
      THEN LET a == IntOf(Last(SplitOn(parts[1], "/")))
               b == IntOf(parts[2])
           IN  [k \in 1..(b - a + 1) |-> EthernetName(a + k - 1)]
      ELSE <<range_str>>

\* the identifiers a list of range strings stands for
Expand(range_list) ==
  Concat([k \in 1..Len(range_list) |-> ExpandRange(range_list[k])])

\* the list is a set of Ethernet1/<n> identifiers: none is named twice
IsIdSet(list) ==
  /\ \A k \in 1..Len(list) : IsEthernetId(list[k])
  /\ Cardinality(SetOf(list)) = Len(list)

\* C15: for a set of Ethernet1/<n> identifiers, condensing the expansion of
\* the result gives the result again.
C15_IdempotentThroughExpansion ==
  (ranges # NotRun /\ IsIdSet(interfaces))
  => condense_interface_ranges(Expand(ranges.returned)) = ranges.returned

\* a set that condenses to a run and a single identifier, whose expansion
\* is longer than the result
C15_Witness ==
  /\ ranges # NotRun
  /\ IsIdSet(interfaces)
  /\ Len(ranges.returned) = 2
  /\ Len(Expand(ranges.returned)) = 4

====
